---- MODULE Spec2Model ----
(***************************************************************************)
(* State-machine model of source/blender/gpu/intern/gpu_framebuffer.c:     *)
(* GPUFrameBuffer attach / detach / free, GPURenderBuffer, GPUOffScreen    *)
(* creation, and the process-wide record GG.currentfb.                     *)
(*                                                                         *)
(* Pointers are modelled as indices into fixed pools (0 is NULL).  A freed *)
(* struct keeps its last contents with alloc = FALSE, so that a dangling   *)
(* pointer can still be followed; following one is undefined behaviour and *)
(* is modelled as a choice between a crash and a read/write of the stale   *)
(* memory.  BLI_assert is modelled as in a release build: the run goes on  *)
(* and the failed assertion is recorded in proc.asserted.  A surface that  *)
(* is released while its back-reference still names a framebuffer is       *)
(* recorded in proc.heldAtRelease.                                         *)
(***************************************************************************)
EXTENDS Integers, FiniteSets, Sequences, TLC

VARIABLES fbs, texs, rbs, GG, gl, proc, ofs, caps, hist, left

vars == <<fbs, texs, rbs, GG, gl, proc, ofs, caps, hist, left>>

(* ---------------------------------------------------------------- bounds *)
NFb == 2          \* GPUFrameBuffer structs in the pool
NTex == 3         \* GPUTexture structs in the pool
NRb == 2          \* GPURenderBuffer structs in the pool
NOfs == 2         \* GPUOffScreen structs in the pool
MaxOps == 2       \* calls made by the caller in one run
MaxOfsOps == 2    \* calls made on offscreen contexts in one run
MaxSamples == 8   \* the sample count a caller asks multisampling with

(* ------------------------------------------------------ program constants *)
GPU_FB_MAX_SLOTS == 4

NULL == 0
FbIds == 1..NFb
TexIds == 1..NTex
RbIds == 1..NRb
OfsIds == 1..NOfs
Slots == 0..(GPU_FB_MAX_SLOTS - 1)

\* Slot arguments a caller passes to a blit: the first and the last slot.
BlitSlots == {0, GPU_FB_MAX_SLOTS - 1}

\* Slot arguments a caller passes: first valid, last valid, first invalid.
SlotArgs == {0, GPU_FB_MAX_SLOTS - 1, GPU_FB_MAX_SLOTS}

\* The same with a negative one: slot is an int.
IntSlotArgs == {-1} \cup SlotArgs

\* What a store before the first element of colortex leaves in fb->object,
\* the field before it: the name of no framebuffer object.  What a store
\* before the first element of colorrb leaves in fb->depthtex, the field
\* before it: a pointer to no texture.
ClobberedObject == NFb + 2
ClobberedTex == NTex + 2

\* The kind of a surface is fixed when it is created; in the pools the
\* even-numbered textures and renderbuffers are the depth ones.
GPU_texture_depth(t) == t % 2 = 0
GPU_renderbuffer_depth(r) == r % 2 = 0

(* ------------------------------------------------------------ the structs *)
ZeroFb ==
  [alloc |-> FALSE, object |-> 0,
   colortex |-> [i \in Slots |-> NULL], depthtex |-> NULL,
   colorrb |-> [i \in Slots |-> NULL], depthrb |-> NULL]

ZeroTex ==
  [alloc |-> FALSE, bindcode |-> 0, samples |-> 0, fb |-> NULL, fb_attachment |-> -1,
   w |-> 0, h |-> 0]

\* The textures of the pools: each has a width and a height of its own.
PoolTex(t) == [ZeroTex EXCEPT !.alloc = TRUE, !.bindcode = t, !.w = t, !.h = NTex + t]

\* GPU_texture_width(tex), GPU_texture_height(tex)
GPU_texture_width(s, t) == s.texs[t].w
GPU_texture_height(s, t) == s.texs[t].h

ZeroRb == [alloc |-> FALSE, bindcode |-> 0, samples |-> 0, fb |-> NULL, fb_attachment |-> 0]

ZeroOfs ==
  [alloc |-> FALSE, fb |-> NULL, color |-> NULL, depth |-> NULL,
   rbcolor |-> NULL, rbdepth |-> NULL, samples |-> 0]

\* Device names: a framebuffer object is named after its struct; the
\* temporary framebuffer and texture of GPU_offscreen_read_pixels get the
\* names after those.
FboNames == 1..(NFb + 1)
fbo_blit == NFb + 1
tex_blit == NTex + 1

\* The attachment points of a framebuffer object: GL_COLOR_ATTACHMENT0 + i
\* and GL_DEPTH_ATTACHMENT.
GL_COLOR_ATTACHMENT0 == 0
GL_DEPTH_ATTACHMENT == GPU_FB_MAX_SLOTS
Points == GL_COLOR_ATTACHMENT0..GL_DEPTH_ATTACHMENT

\* GL_NONE as a draw or read buffer.
GL_NONE == -1

\* The draw buffers and the read buffer of a framebuffer object: as
\* glGenFramebuffers gives them, and as GPU_framebuffer_create leaves them.
DefaultBufs == [draw |-> <<GL_COLOR_ATTACHMENT0>>, read |-> GL_COLOR_ATTACHMENT0]
NoBufs == [draw |-> <<>>, read |-> GL_NONE]

\* The viewport before any glViewport, and one set from garbage.
NoViewport == <<0, 0>>
GarbageViewport == <<-1, -1>>

\* What is attached at a point: nothing, a texture or a renderbuffer.
NoImage == [kind |-> "none", name |-> 0]
Image(kind, name) == IF name = 0 THEN NoImage ELSE [kind |-> kind, name |-> name]

\* The device: the framebuffer bound for drawing and for reading, the live
\* object names, whether a name was deleted that was not live, the images
\* attached to each framebuffer object, the calls of gpuPushAttrib and
\* gpuPopAttrib made so far, the draw buffers and the read buffer of each
\* framebuffer object, and the viewport.
ZeroGl ==
  [draw |-> 0, read |-> 0, fbos |-> {}, textures |-> {}, renderbuffers |-> {},
   doubleFree |-> FALSE,
   att |-> [n \in FboNames |-> [p \in Points |-> NoImage]],
   pushes |-> 0, pops |-> 0,
   bufs |-> [n \in FboNames |-> DefaultBufs],
   viewport |-> NoViewport]

\* The device with the framebuffers, textures and renderbuffers of the
\* pools, the framebuffers as GPU_framebuffer_create leaves them.
PoolGl ==
  [ZeroGl EXCEPT !.fbos = FbIds, !.textures = TexIds, !.renderbuffers = RbIds,
                 !.bufs = [n \in FboNames |-> IF n \in FbIds THEN NoBufs ELSE DefaultBufs]]

\* The process: alive, no assertion failed, no surface released while held.
ZeroProc == [crashed |-> FALSE, asserted |-> FALSE, heldAtRelease |-> FALSE]

\* The part of the state the functions of the file read and write.
State ==
  [fbs |-> fbs, texs |-> texs, rbs |-> rbs, GG |-> GG, gl |-> gl, proc |-> proc,
   ofs |-> ofs]

Crash(s) == [s EXCEPT !.proc.crashed = TRUE]

\* An outcome of a call: the state it leaves and the value it returns.
Out(s, r) == [st |-> s, ret |-> r]

(* ------------------------------------------------------------- the device *)
glBindFramebuffer(s, name) == [s EXCEPT !.gl.draw = name, !.gl.read = name]

\* glBindFramebuffer(GL_READ_FRAMEBUFFER / GL_DRAW_FRAMEBUFFER, name)
glBindReadFramebuffer(s, name) == [s EXCEPT !.gl.read = name]
glBindDrawFramebuffer(s, name) == [s EXCEPT !.gl.draw = name]

\* glGenFramebuffers giving the name
glGenFramebuffers(s, name) ==
  [s EXCEPT !.gl.fbos = @ \cup {name},
            !.gl.att[name] = [p \in Points |-> NoImage],
            !.gl.bufs[name] = DefaultBufs]

\* A deleted framebuffer object that is bound leaves the default one bound.
glDeleteFramebuffers(s, name) ==
  [s EXCEPT !.gl.fbos = @ \ {name},
            !.gl.doubleFree = @ \/ (name \notin s.gl.fbos),
            !.gl.att[name] = [p \in Points |-> NoImage],
            !.gl.bufs[name] = DefaultBufs,
            !.gl.draw = IF @ = name THEN 0 ELSE @,
            !.gl.read = IF @ = name THEN 0 ELSE @]

\* The attachments of the framebuffer objects in B without the image img.
Unattached(s, B, img) ==
  [n \in FboNames |->
     [p \in Points |->
        IF n \in B /\ s.gl.att[n][p] = img THEN NoImage ELSE s.gl.att[n][p]]]

\* A deleted image is detached from the framebuffer objects that are bound,
\* and stays attached to the others.
glDeleteTextures(s, name) ==
  [s EXCEPT !.gl.textures = @ \ {name},
            !.gl.doubleFree = @ \/ (name \notin s.gl.textures),
            !.gl.att = Unattached(s, {s.gl.draw, s.gl.read}, Image("tex", name))]

glDeleteRenderbuffers(s, name) ==
  [s EXCEPT !.gl.renderbuffers = @ \ {name},
            !.gl.doubleFree = @ \/ (name \notin s.gl.renderbuffers),
            !.gl.att = Unattached(s, {s.gl.draw, s.gl.read}, Image("rb", name))]

\* An image put at a point of the framebuffer object bound: an error that
\* changes nothing when the default framebuffer is the one bound, when the
\* point is none of a framebuffer object, or when the image is no live one.
glFramebufferImage(s, bound, point, img) ==
  IF /\ bound \in s.gl.fbos
     /\ point \in Points
     /\ \/ img = NoImage
        \/ img.kind = "tex" /\ img.name \in s.gl.textures
        \/ img.kind = "rb" /\ img.name \in s.gl.renderbuffers
    THEN [s EXCEPT !.gl.att[bound][point] = img]
    ELSE s

\* glFramebufferTexture(GL_FRAMEBUFFER, attachment, name, mip)
glFramebufferTexture(s, point, name) ==
  glFramebufferImage(s, s.gl.draw, point, Image("tex", name))

\* glFramebufferRenderbufferEXT(GL_FRAMEBUFFER_EXT, attachment, .., name)
glFramebufferRenderbuffer(s, point, name) ==
  glFramebufferImage(s, s.gl.draw, point, Image("rb", name))

\* glCheckFramebufferStatus of the framebuffer bound is
\* GL_FRAMEBUFFER_COMPLETE: the default framebuffer is; a framebuffer object
\* with no image attached is not; devOk is FALSE when the device rejects
\* the images attached.
glCheckFramebufferStatus(s, bound, devOk) ==
  \/ bound = 0
  \/ /\ bound \in s.gl.fbos
     /\ devOk
     /\ \E p \in Points : s.gl.att[bound][p] # NoImage

\* glDrawBuffers(n, bufs) on the framebuffer object bound for drawing; an
\* error that changes nothing when the default framebuffer is bound.
glDrawBuffers(s, bufs) ==
  IF s.gl.draw \in s.gl.fbos THEN [s EXCEPT !.gl.bufs[s.gl.draw].draw = bufs] ELSE s

\* glDrawBuffer(buf)
glDrawBuffer(s, buf) == glDrawBuffers(s, IF buf = GL_NONE THEN <<>> ELSE <<buf>>)

\* glReadBuffer(buf) on the framebuffer object bound for reading
glReadBuffer(s, buf) ==
  IF s.gl.read \in s.gl.fbos THEN [s EXCEPT !.gl.bufs[s.gl.read].read = buf] ELSE s

\* glViewport(0, 0, w, h)
glViewport(s, w, h) == [s EXCEPT !.gl.viewport = <<w, h>>]

(* --------------------------------------------- back-references of surfaces *)
GPU_texture_framebuffer_set(s, t, fb, attachment) ==
  [s EXCEPT !.texs[t].fb = fb, !.texs[t].fb_attachment = attachment]

GPU_renderbuffer_framebuffer_set(s, r, fb, attachment) ==
  [s EXCEPT !.rbs[r].fb = fb, !.rbs[r].fb_attachment = attachment]

(* --------------------------------------------------------- GPUFrameBuffer *)
GPU_framebuffer_restore(s) ==
  IF s.GG.currentfb # 0
    THEN [glBindFramebuffer(s, 0) EXCEPT !.GG.currentfb = 0]
    ELSE s

\* Bind fb and record it, as the attach functions and check_valid do.
BindAndRecord(s, fb) ==
  [glBindFramebuffer(s, s.fbs[fb].object) EXCEPT !.GG.currentfb = s.fbs[fb].object]

\* The slot test with > written for >=.
SlotRejected_gt(slot) == slot > GPU_FB_MAX_SLOTS

\* The slot test both attach functions start with.
SlotRejected(slot) == slot >= GPU_FB_MAX_SLOTS

\* GPU_framebuffer_texture_attach_target(fb, tex, target, slot, mip), tex not
\* NULL.  Outcomes: {Out(state, returned bool)}.
TexAttachRecord(s, fb, t, slot) ==
  IF GPU_texture_depth(t) THEN [s EXCEPT !.fbs[fb].depthtex = t]
  ELSE IF slot \in Slots THEN [s EXCEPT !.fbs[fb].colortex[slot] = t]
  ELSE [s EXCEPT !.fbs[fb].object = ClobberedObject]

\* The attachment and the glFramebufferTexture of an attach.
TexAttachDevice(s, t, slot) ==
  glFramebufferTexture(s, IF GPU_texture_depth(t) THEN GL_DEPTH_ATTACHMENT
                          ELSE GL_COLOR_ATTACHMENT0 + slot,
                       s.texs[t].bindcode)

GPU_framebuffer_texture_attach(s, fb, t, slot) ==
  IF SlotRejected(slot) THEN {Out(s, FALSE)}
  ELSE IF t = NULL
    THEN \* tex is dereferenced (GPU_texture_target, GPU_texture_depth,
         \* GPU_texture_framebuffer_set): a crash, or reads of garbage that
         \* store NULL in the depth slot or in the color slot.
         LET s1 == BindAndRecord(s, fb)
         IN {Out(Crash(s), FALSE),
             Out([s1 EXCEPT !.fbs[fb].depthtex = NULL], TRUE),
             Out([s1 EXCEPT !.fbs[fb].colortex[slot] = NULL], TRUE)}
    ELSE LET s1 == BindAndRecord(s, fb)
             s2 == TexAttachRecord(TexAttachDevice(s1, t, slot), fb, t, slot)
             s3 == GPU_texture_framebuffer_set(s2, t, fb, slot)
         IN \* a negative slot of a color texture is a store outside colortex
            IF slot < 0 /\ ~GPU_texture_depth(t)
              THEN {Out(Crash(s), FALSE), Out(s3, TRUE)}
              ELSE {Out(s3, TRUE)}

\* A detach that forgets the forward reference.
TexDetachForward_keep(s, fb, t, att) == s

\* The glFramebufferTexture(GL_FRAMEBUFFER, attachment, 0, 0) of a detach.
TexDetachDevice(s, t, att) ==
  glFramebufferTexture(s, IF GPU_texture_depth(t) THEN GL_DEPTH_ATTACHMENT
                          ELSE GL_COLOR_ATTACHMENT0 + att, 0)

\* The forward reference cleared by a detach, with the BLI_assert before it.
TexDetachForward(s, fb, t, att) ==
  IF GPU_texture_depth(t)
    THEN [s EXCEPT !.fbs[fb].depthtex = NULL]
    ELSE [s EXCEPT !.fbs[fb].colortex[att] = NULL,
                   !.proc.asserted = @ \/ (s.fbs[fb].colortex[att] # t)]

\* A detach that restores the default binding before it tests the
\* back-reference.
GPU_framebuffer_texture_detach_restoring(s, t) ==
  LET r == GPU_framebuffer_restore(s)
      fb == r.texs[t].fb
  IN IF fb = NULL THEN {r}
     ELSE {GPU_texture_framebuffer_set(
             TexDetachDevice(
               TexDetachForward(BindAndRecord(r, fb), fb, t, r.texs[t].fb_attachment),
               t, r.texs[t].fb_attachment),
             t, NULL, -1)}

\* GPU_framebuffer_texture_detach_target(tex, target): the set of states it
\* can leave.
GPU_framebuffer_texture_detach(s, t) ==
  LET fb == s.texs[t].fb
      att == s.texs[t].fb_attachment
  IN IF fb = NULL THEN {s}
     ELSE LET s1 == IF s.GG.currentfb # s.fbs[fb].object THEN BindAndRecord(s, fb) ELSE s
              s2 == TexDetachDevice(TexDetachForward(s1, fb, t, att), t, att)
              s3 == GPU_texture_framebuffer_set(s2, t, NULL, -1)
          IN IF s.fbs[fb].alloc THEN {s3} ELSE {Crash(s), s3}

\* The attachment a renderbuffer goes to.
RbPoint(r, slot) ==
  IF GPU_renderbuffer_depth(r) THEN GL_DEPTH_ATTACHMENT ELSE GL_COLOR_ATTACHMENT0 + slot

\* The forward reference an attach of a renderbuffer writes.
RbAttachRecord(s, fb, r, slot) ==
  IF GPU_renderbuffer_depth(r) THEN [s EXCEPT !.fbs[fb].depthrb = r]
  ELSE IF slot \in Slots THEN [s EXCEPT !.fbs[fb].colorrb[slot] = r]
  ELSE [s EXCEPT !.fbs[fb].depthtex = ClobberedTex]

\* A renderbuffer attach that records the renderbuffer before it asks the
\* device for the error.
GPU_framebuffer_renderbuffer_attach_recordFirst(s, fb, r, slot, glError) ==
  IF SlotRejected(slot) THEN {Out(s, FALSE)}
  ELSE LET s1 == BindAndRecord(s, fb)
           s2 == IF GPU_renderbuffer_depth(r)
                   THEN [s1 EXCEPT !.fbs[fb].depthrb = r]
                   ELSE [s1 EXCEPT !.fbs[fb].colorrb[slot] = r]
           s3 == GPU_renderbuffer_framebuffer_set(s2, r, fb, slot)
       IN IF glError THEN {Out(GPU_framebuffer_restore(s3), FALSE)}
          ELSE {Out(glFramebufferRenderbuffer(s3, RbPoint(r, slot), s3.rbs[r].bindcode), TRUE)}

\* GPU_framebuffer_renderbuffer_attach(fb, rb, slot, err_out); glError is
\* TRUE when the device answers GL_INVALID_OPERATION.
GPU_framebuffer_renderbuffer_attach(s, fb, r, slot, glError) ==
  IF SlotRejected(slot) THEN {Out(s, FALSE)}
  ELSE LET s1 == BindAndRecord(s, fb)
       IN IF glError THEN {Out(GPU_framebuffer_restore(s1), FALSE)}
          ELSE LET d == glFramebufferRenderbuffer(s1, RbPoint(r, slot), s1.rbs[r].bindcode)
                   s2 == RbAttachRecord(d, fb, r, slot)
                   s3 == GPU_renderbuffer_framebuffer_set(s2, r, fb, slot)
               IN \* a negative slot of a color renderbuffer is a store
                  \* outside colorrb
                  IF slot < 0 /\ ~GPU_renderbuffer_depth(r)
                    THEN {Out(Crash(s), FALSE), Out(s3, TRUE)}
                    ELSE {Out(s3, TRUE)}

RbDetachForward(s, fb, r, att) ==
  IF GPU_renderbuffer_depth(r)
    THEN [s EXCEPT !.fbs[fb].depthrb = NULL]
    ELSE [s EXCEPT !.fbs[fb].colorrb[att] = NULL,
                   !.proc.asserted = @ \/ (s.fbs[fb].colorrb[att] # r)]

\* GPU_framebuffer_renderbuffer_detach(rb)
GPU_framebuffer_renderbuffer_detach(s, r) ==
  LET fb == s.rbs[r].fb
      att == s.rbs[r].fb_attachment
  IN IF fb = NULL THEN {s}
     ELSE LET s1 == IF s.GG.currentfb # s.fbs[fb].object THEN BindAndRecord(s, fb) ELSE s
              s2 == glFramebufferRenderbuffer(RbDetachForward(s1, fb, r, att), RbPoint(r, att), 0)
              s3 == GPU_renderbuffer_framebuffer_set(s2, r, NULL, -1)
          IN IF s.fbs[fb].alloc THEN {s3} ELSE {Crash(s), s3}

\* The k-th detach step of GPU_framebuffer_free: depthtex, colortex[0..3],
\* depthrb, colorrb[0..3], each read from the struct as it is at that step.
FreeDetachStep(s, fb, k) ==
  LET f == s.fbs[fb]
      M == GPU_FB_MAX_SLOTS
  IN IF k = 0
       THEN IF f.depthtex # NULL THEN GPU_framebuffer_texture_detach(s, f.depthtex) ELSE {s}
     ELSE IF k <= M
       THEN IF f.colortex[k - 1] # NULL
              THEN GPU_framebuffer_texture_detach(s, f.colortex[k - 1]) ELSE {s}
     ELSE IF k = M + 1
       THEN IF f.depthrb # NULL THEN GPU_framebuffer_renderbuffer_detach(s, f.depthrb) ELSE {s}
     ELSE IF f.colorrb[k - M - 2] # NULL
            THEN GPU_framebuffer_renderbuffer_detach(s, f.colorrb[k - M - 2]) ELSE {s}

RECURSIVE FreeDetachAll(_, _, _)
FreeDetachAll(s, fb, k) ==
  IF k > 2 * GPU_FB_MAX_SLOTS + 1 \/ s.proc.crashed THEN {s}
  ELSE UNION {FreeDetachAll(n, fb, k + 1) : n \in FreeDetachStep(s, fb, k)}

\* A release that leaves GG.currentfb as it is.
FreeRelease_noReset(s, fb) ==
  LET obj == s.fbs[fb].object
      s1 == IF obj # 0 THEN glDeleteFramebuffers(s, obj) ELSE s
  IN [s1 EXCEPT !.fbs[fb].alloc = FALSE]

\* The end of GPU_framebuffer_free: the handle is released, the record of
\* the bound framebuffer is reset when it names that handle, the struct is
\* freed.
FreeRelease(s, fb) ==
  LET obj == s.fbs[fb].object
      s1 == IF obj # 0
              THEN LET d == glDeleteFramebuffers(s, obj)
                   IN IF d.GG.currentfb = obj
                        THEN [glBindFramebuffer(d, 0) EXCEPT !.GG.currentfb = 0]
                        ELSE d
              ELSE s
  IN [s1 EXCEPT !.fbs[fb].alloc = FALSE]

\* GPU_framebuffer_free(fb)
GPU_framebuffer_free(s, fb) ==
  {IF n.proc.crashed THEN n ELSE FreeRelease(n, fb) : n \in FreeDetachAll(s, fb, 0)}

\* GPU_framebuffer_create() into the free struct fb; genOk is FALSE when
\* glGenFramebuffers gives no name.  The name given is the struct's index.
GPU_framebuffer_create(s, fb, genOk) ==
  LET s0 == [s EXCEPT !.fbs[fb] = [ZeroFb EXCEPT !.alloc = TRUE]]
  IN IF ~genOk
       THEN {Out(n, NULL) : n \in GPU_framebuffer_free(s0, fb)}
       ELSE LET s1 == [glGenFramebuffers(s0, fb) EXCEPT !.fbs[fb].object = fb]
                s2 == glDrawBuffer(glReadBuffer(glBindFramebuffer(s1, fb), GL_NONE), GL_NONE)
            IN {Out(glBindFramebuffer(s2, 0), fb)}

\* glFramebufferTexture2D(GL_READ_FRAMEBUFFER / GL_DRAW_FRAMEBUFFER,
\* attachment, GL_TEXTURE_2D, name, 0) on the framebuffer bound there.
glFramebufferTexture2D(s, bound, point, name) ==
  glFramebufferImage(s, bound, point, Image("tex", name))

\* BLI_assert(glCheckFramebufferStatus(target) == GL_FRAMEBUFFER_COMPLETE)
\* on a device that rejects no image.
AssertComplete(s, bound) ==
  [s EXCEPT !.proc.asserted = @ \/ ~glCheckFramebufferStatus(s, bound, TRUE)]

\* The texture GPU_framebuffer_blit takes from a framebuffer.
BlitTex(s, fb, slot, use_depth) ==
  IF use_depth THEN s.fbs[fb].depthtex ELSE s.fbs[fb].colortex[slot]

\* The attachment GPU_framebuffer_blit puts a texture at.
BlitPoint(s, t, use_depth) ==
  IF use_depth THEN GL_DEPTH_ATTACHMENT
  ELSE GL_COLOR_ATTACHMENT0 + s.texs[t].fb_attachment

\* A blit that leaves the two framebuffers bound.
BlitRestore_none(s) == s

\* "Restore previous framebuffer"
BlitRestore(s) == glBindFramebuffer(s, s.GG.currentfb)

\* GPU_framebuffer_blit(fb_read, read_slot, fb_write, write_slot, use_depth):
\* the states it can leave.  With an empty slot on either side the texture
\* read is NULL and is dereferenced: a crash, or garbage that the device
\* refuses to attach.
GPU_framebuffer_blit(s, fb_read, read_slot, fb_write, write_slot, use_depth) ==
  LET read_tex == BlitTex(s, fb_read, read_slot, use_depth)
      write_tex == BlitTex(s, fb_write, write_slot, use_depth)
      valid == read_tex # NULL /\ write_tex # NULL
      s1 == glBindReadFramebuffer(s, s.fbs[fb_read].object)
      s2 == IF read_tex # NULL
              THEN glFramebufferTexture2D(s1, s1.gl.read, BlitPoint(s, read_tex, use_depth),
                                          s.texs[read_tex].bindcode)
              ELSE s1
      s3 == glBindDrawFramebuffer(AssertComplete(s2, s2.gl.read), s.fbs[fb_write].object)
      s4 == IF write_tex # NULL
              THEN glFramebufferTexture2D(s3, s3.gl.draw, BlitPoint(s, write_tex, use_depth),
                                          s.texs[write_tex].bindcode)
              ELSE s3
      s5 == BlitRestore(AssertComplete(s4, s4.gl.draw))
  IN IF valid THEN {s5} ELSE {Crash(s), s5}

(* ------------------------------------------------ GPUTexture (external) *)
\* GPU_texture_create_2D_custom / GPU_texture_create_depth_multisample into
\* the free struct t, of width 1 and height 1; ok is FALSE when the device
\* gives no texture.
GPU_texture_create(s, t, samples, ok) ==
  IF ~ok THEN Out(s, NULL)
  ELSE Out([s EXCEPT !.texs[t] = [ZeroTex EXCEPT !.alloc = TRUE, !.bindcode = t,
                                                 !.samples = samples, !.w = 1, !.h = 1],
                     !.gl.textures = @ \cup {t}], t)

\* GPU_texture_free(tex): a texture freed while attached is detached first.
GPU_texture_free(s, t) ==
  {IF n.proc.crashed THEN n
   ELSE [glDeleteTextures(n, n.texs[t].bindcode)
           EXCEPT !.texs[t].alloc = FALSE,
                  !.proc.heldAtRelease = @ \/ (s.texs[t].fb # NULL)]
     : n \in GPU_framebuffer_texture_detach(s, t)}

(* -------------------------------------------------------- GPURenderBuffer *)
\* GPU_renderbuffer_free(rb)
GPU_renderbuffer_free(s, r) ==
  LET s1 == IF s.rbs[r].bindcode # 0 THEN glDeleteRenderbuffers(s, s.rbs[r].bindcode) ELSE s
  IN [s1 EXCEPT !.rbs[r].alloc = FALSE,
                !.proc.heldAtRelease = @ \/ (s.rbs[r].fb # NULL)]

\* GPU_renderbuffer_create(width, height, samples, data_type, type, err_out)
\* into the free struct r; genOk is FALSE when glGenRenderbuffers gives no
\* name.
GPU_renderbuffer_create(s, r, samples, genOk) ==
  LET s0 == [s EXCEPT !.rbs[r] = [ZeroRb EXCEPT !.alloc = TRUE]]
  IN IF ~genOk THEN Out(GPU_renderbuffer_free(s0, r), NULL)
     ELSE Out([s0 EXCEPT !.rbs[r].bindcode = r, !.rbs[r].samples = samples,
                         !.gl.renderbuffers = @ \cup {r}], r)

\* A check that leaves the framebuffer bound when it is incomplete.
GPU_framebuffer_check_valid_bound(s, fb, devOk) ==
  LET s1 == BindAndRecord(s, fb)
  IN Out(s1, glCheckFramebufferStatus(s1, s1.gl.draw, devOk))

\* GPU_framebuffer_check_valid(fb, err_out); devOk is FALSE when the device
\* rejects the images attached.
GPU_framebuffer_check_valid(s, fb, devOk) ==
  LET s1 == BindAndRecord(s, fb)
  IN IF ~glCheckFramebufferStatus(s1, s1.gl.draw, devOk)
       THEN Out(GPU_framebuffer_restore(s1), FALSE)
       ELSE Out(s1, TRUE)

(* ----------------------------------------------------------- GPUOffScreen *)
\* The sets of states a sequence of frees can leave; a crash ends it.
Then(S, F(_)) == UNION {IF n.proc.crashed THEN {n} ELSE F(n) : n \in S}

\* An offscreen free that forgets the renderbuffers.
GPU_offscreen_free_noRb(s, o) ==
  LET FreeFb(n) == IF o.fb # NULL THEN GPU_framebuffer_free(n, o.fb) ELSE {n}
      FreeColor(n) == IF o.color # NULL THEN GPU_texture_free(n, o.color) ELSE {n}
      FreeDepth(n) == IF o.depth # NULL THEN GPU_texture_free(n, o.depth) ELSE {n}
  IN Then(Then(Then({s}, FreeFb), FreeColor), FreeDepth)

\* An offscreen free that releases the surfaces before the framebuffer.
GPU_offscreen_free_surfacesFirst(s, o) ==
  LET FreeFb(n) == IF o.fb # NULL THEN GPU_framebuffer_free(n, o.fb) ELSE {n}
      FreeColor(n) == IF o.color # NULL THEN GPU_texture_free(n, o.color) ELSE {n}
      FreeDepth(n) == IF o.depth # NULL THEN GPU_texture_free(n, o.depth) ELSE {n}
      FreeRbColor(n) == {IF o.rbcolor # NULL THEN GPU_renderbuffer_free(n, o.rbcolor) ELSE n}
      FreeRbDepth(n) == {IF o.rbdepth # NULL THEN GPU_renderbuffer_free(n, o.rbdepth) ELSE n}
  IN Then(Then(Then(Then(Then({s}, FreeColor), FreeDepth), FreeRbColor), FreeRbDepth), FreeFb)

\* GPU_offscreen_free(ofs) of the struct with the fields o.
GPU_offscreen_free(s, o) ==
  LET FreeFb(n) == IF o.fb # NULL THEN GPU_framebuffer_free(n, o.fb) ELSE {n}
      FreeColor(n) == IF o.color # NULL THEN GPU_texture_free(n, o.color) ELSE {n}
      FreeDepth(n) == IF o.depth # NULL THEN GPU_texture_free(n, o.depth) ELSE {n}
      FreeRbColor(n) == {IF o.rbcolor # NULL THEN GPU_renderbuffer_free(n, o.rbcolor) ELSE n}
      FreeRbDepth(n) == {IF o.rbdepth # NULL THEN GPU_renderbuffer_free(n, o.rbdepth) ELSE n}
  IN Then(Then(Then(Then(Then({s}, FreeFb), FreeColor), FreeDepth), FreeRbColor), FreeRbDepth)

\* gpuPushAttrib(GPU_ENABLE_BIT | GPU_VIEWPORT_BIT), gpuPopAttrib()
gpuPushAttrib(s) == [s EXCEPT !.gl.pushes = @ + 1]
gpuPopAttrib(s) == [s EXCEPT !.gl.pops = @ + 1]

\* GPU_texture_bind_as_framebuffer(tex): the states it can leave.  A NULL
\* tex is dereferenced: a crash, or garbage read as "not bound to a
\* framebuffer".
GPU_texture_bind_as_framebuffer(s, t) ==
  IF t = NULL THEN {Crash(s), s}
  ELSE LET fb == s.texs[t].fb
       IN IF fb = NULL THEN {s}
          ELSE LET att == s.texs[t].fb_attachment
                   buf == IF GPU_texture_depth(t) THEN GL_NONE ELSE GL_COLOR_ATTACHMENT0 + att
                   s1 == glBindFramebuffer(gpuPushAttrib(s), s.fbs[fb].object)
                   s2 == glReadBuffer(glDrawBuffer(s1, buf), buf)
                   s3 == glViewport(s2, GPU_texture_width(s, t), GPU_texture_height(s, t))
                   s4 == [s3 EXCEPT !.GG.currentfb = s.fbs[fb].object]
               IN IF s.fbs[fb].alloc THEN {s4} ELSE {Crash(s), s4}

\* GPU_framebuffer_texture_unbind(fb, tex)
GPU_framebuffer_texture_unbind(s) == gpuPopAttrib(s)

\* GPU_framebuffer_bind_no_save(fb, slot): the width and the height of
\* fb->colortex[slot] are read, a NULL dereference when the slot is empty.
GPU_framebuffer_bind_no_save(s, fb, slot) ==
  LET t == s.fbs[fb].colortex[slot]
      s1 == glBindFramebuffer(s, s.fbs[fb].object)
      s2 == glReadBuffer(glDrawBuffer(s1, GL_COLOR_ATTACHMENT0 + slot),
                         GL_COLOR_ATTACHMENT0 + slot)
      Record(n) == [n EXCEPT !.GG.currentfb = s.fbs[fb].object]
  IN IF t # NULL
       THEN {Record(glViewport(s2, GPU_texture_width(s, t), GPU_texture_height(s, t)))}
       ELSE {Crash(s), Record([s2 EXCEPT !.gl.viewport = GarbageViewport])}

\* A bind that does not record the framebuffer in GG.currentfb.
GPU_framebuffer_bind_simple_noRecord(s, fb) ==
  LET s1 == glBindFramebuffer(s, s.fbs[fb].object)
  IN glReadBuffer(glDrawBuffer(s1, GL_COLOR_ATTACHMENT0), GL_COLOR_ATTACHMENT0)

\* GPU_framebuffer_bind_simple(fb)
GPU_framebuffer_bind_simple(s, fb) ==
  LET s1 == glBindFramebuffer(s, s.fbs[fb].object)
      s2 == glReadBuffer(glDrawBuffer(s1, GL_COLOR_ATTACHMENT0), GL_COLOR_ATTACHMENT0)
  IN [s2 EXCEPT !.GG.currentfb = s.fbs[fb].object]

\* The color slots of struct f that hold a texture, in the order of the loop
\* "for (i = 0; i < 4; i++) if (fb->colortex[i])".
OccupiedSlots(f) ==
  SelectSeq([k \in 1..GPU_FB_MAX_SLOTS |-> k - 1], LAMBDA i : f.colortex[i] # NULL)

\* attachments[0 .. numslots - 1]
Attachments(f) ==
  LET occ == OccupiedSlots(f) IN [k \in 1..Len(occ) |-> GL_COLOR_ATTACHMENT0 + occ[k]]

\* glViewport(0, 0, GPU_texture_width(tex), GPU_texture_height(tex)): the
\* states it can leave; a NULL tex is dereferenced.
ViewportOf(s, pre, t) ==
  IF t # NULL THEN {glViewport(s, GPU_texture_width(s, t), GPU_texture_height(s, t))}
  ELSE {Crash(pre), [s EXCEPT !.gl.viewport = GarbageViewport]}

\* GPU_framebuffer_bind(fb): the states it can leave.  tex is the texture of
\* the last slot the loop found occupied, readattachement the first one.
GPU_framebuffer_bind(s, fb) ==
  LET f == s.fbs[fb]
      occ == OccupiedSlots(f)
      numslots == Len(occ)
      s1 == glBindFramebuffer(s, f.object)
      s2 == IF numslots = 0
              THEN glReadBuffer(glDrawBuffer(s1, GL_NONE), GL_NONE)
              ELSE glReadBuffer(glDrawBuffers(s1, Attachments(f)), GL_COLOR_ATTACHMENT0 + occ[1])
      tex == IF numslots = 0 THEN f.depthtex ELSE f.colortex[occ[numslots]]
  IN {[n EXCEPT !.GG.currentfb = IF n.proc.crashed THEN @ ELSE f.object]
        : n \in ViewportOf(s2, s, tex)}

\* GPU_framebuffer_slots_bind(fb, slot)
GPU_framebuffer_slots_bind(s, fb, slot) ==
  LET f == s.fbs[fb]
      t == f.colortex[slot]
  IN IF t = NULL THEN s
     ELSE LET s1 == glBindFramebuffer(gpuPushAttrib(s), f.object)
              s2 == glReadBuffer(glDrawBuffers(s1, Attachments(f)), GL_COLOR_ATTACHMENT0 + slot)
              s3 == glViewport(s2, GPU_texture_width(s, t), GPU_texture_height(s, t))
          IN [s3 EXCEPT !.GG.currentfb = f.object]

\* GPU_framebuffer_bind_all_attachments(fb)
GPU_framebuffer_bind_all_attachments(s, fb) ==
  LET f == s.fbs[fb]
      s1 == glBindFramebuffer(s, f.object)
      s2 == glReadBuffer(glDrawBuffers(s1, Attachments(f)), GL_COLOR_ATTACHMENT0)
  IN [s2 EXCEPT !.GG.currentfb = f.object]

\* What Batch_draw draws with: the framebuffer bound for drawing, the one
\* GG.currentfb names, the viewport, and the texture bound for sampling.
Draw(s, sampled) ==
  [bound |-> s.gl.draw, recorded |-> s.GG.currentfb, viewport |-> s.gl.viewport,
   sampled |-> sampled]

\* A pass that draws without recording the framebuffer it bound.
BlurPass_noRecord(s, fb, size, sampled) ==
  LET s1 == glDrawBuffer(glBindFramebuffer(s, s.fbs[fb].object), GL_COLOR_ATTACHMENT0)
      s2 == glViewport(s1, GPU_texture_width(s, size), GPU_texture_height(s, size))
  IN Out(s2, Draw(s2, sampled))

\* One pass of GPU_framebuffer_blur: fb is bound and recorded, the viewport
\* is set to the size of the texture size, the texture sampled is bound and
\* the batch is drawn.
BlurPass(s, fb, size, sampled) ==
  LET s1 == glDrawBuffer(glBindFramebuffer(s, s.fbs[fb].object), GL_COLOR_ATTACHMENT0)
      s2 == [s1 EXCEPT !.GG.currentfb = s.fbs[fb].object]
      s3 == glViewport(s2, GPU_texture_width(s, size), GPU_texture_height(s, size))
  IN Out(s3, Draw(s3, sampled))

\* GPU_framebuffer_blur(fb, tex, blurfb, blurtex, sharpness); blur_shader is
\* FALSE when GPU_shader_get_builtin_shader gives no shader.  Returns the
\* state and the draws made, in order.
GPU_framebuffer_blur(s, fb, tex, blurfb, blurtex, blur_shader) ==
  IF ~blur_shader THEN Out(s, <<>>)
  ELSE LET horizontal == BlurPass(s, blurfb, blurtex, tex)
           vertical == BlurPass(horizontal.st, fb, tex, blurtex)
       IN Out(vertical.st, <<horizontal.ret, vertical.ret>>)

\* GPU_offscreen_bind(ofs, save) of the struct with the fields o.
GPU_offscreen_bind(s, o, save) ==
  IF save THEN GPU_texture_bind_as_framebuffer(s, o.color)
  ELSE GPU_framebuffer_bind_no_save(s, o.fb, 0)

\* GPU_offscreen_unbind(ofs, restore)
GPU_offscreen_unbind(s, o, restore) ==
  GPU_framebuffer_restore(IF restore THEN GPU_framebuffer_texture_unbind(s) ELSE s)

\* GPU_offscreen_blit(srcofs, dstofs, color, depth) of the structs with the
\* fields src and dst.
GPU_offscreen_blit(s, src, dst, color, depth) ==
  LET s0 == [s EXCEPT !.proc.asserted = @ \/ ~(color \/ depth)]
      s1 == glBindReadFramebuffer(s0, s.fbs[src.fb].object)
      s2 == glBindDrawFramebuffer(s1, s.fbs[dst.fb].object)
  IN GPU_framebuffer_bind_simple(s2, dst.fb)

\* The steps of GPU_offscreen_read_pixels the device can fail at.
ReadFailSteps == {"tex", "fbo", "incomplete"}

\* A cleanup that forgets the temporary texture.
ReadPixelsCleanup_noTex(s, tex, fbo) ==
  IF fbo # 0 THEN glDeleteFramebuffers(s, fbo) ELSE s

\* "finally: cleanup"
ReadPixelsCleanup(s, tex, fbo) ==
  LET s1 == IF tex # 0 THEN glDeleteTextures(s, tex) ELSE s
  IN IF fbo # 0 THEN glDeleteFramebuffers(s1, fbo) ELSE s1

\* The multisample path of GPU_offscreen_read_pixels: the state it leaves
\* and the number of temporary objects it generated.
ReadPixelsResolve(s, dev) ==
  IF dev = "tex" THEN Out(ReadPixelsCleanup(s, 0, 0), 0)
  ELSE LET tex == tex_blit
           fbo == IF dev = "fbo" THEN 0 ELSE fbo_blit
           s1 == [s EXCEPT !.gl.textures = @ \cup {tex}]
           s2 == IF fbo # 0 THEN glGenFramebuffers(s1, fbo) ELSE s1
           s3 == glBindDrawFramebuffer(s2, fbo)
           s4 == glFramebufferTexture2D(s3, s3.gl.draw, GL_COLOR_ATTACHMENT0, tex)
           n == IF fbo # 0 THEN 2 ELSE 1
       IN IF ~glCheckFramebufferStatus(s4, s4.gl.draw, dev # "incomplete")
            THEN Out(ReadPixelsCleanup(s4, tex, fbo), n)
            ELSE Out(ReadPixelsCleanup(glBindReadFramebuffer(s4, fbo), tex, fbo), n)

\* GPU_offscreen_read_pixels(ofs, type, pixels) of the struct with the
\* fields o: outcomes {Out(state, temporaries generated)}.  With no color
\* texture ofs->color is NULL and is dereferenced: a crash, or garbage that
\* selects either path.
GPU_offscreen_read_pixels(s, o, dev) ==
  IF o.color = NULL THEN {Out(Crash(s), 0), Out(s, 0), ReadPixelsResolve(s, dev)}
  ELSE IF s.texs[o.color].samples > 0 THEN {ReadPixelsResolve(s, dev)}
  ELSE {Out(s, 0)}

\* The sample count GPU_offscreen_create goes on with.
ClampSamples_noBlit(samples, mode) ==
  IF samples # 0 /\ (\/ ~caps.multisample
                     \/ (~caps.texture_multisample /\ (~mode.rbcolor \/ ~mode.rbdepth)))
    THEN 0 ELSE samples

ClampSamples(samples, mode) ==
  IF samples # 0 /\ (\/ ~caps.multisample
                     \/ (~caps.texture_multisample /\ (~mode.rbcolor \/ ~mode.rbdepth))
                     \/ ~caps.blit)
    THEN 0 ELSE samples

\* The steps the device can fail at.
FailSteps == {"fb", "color_alloc", "color_attach", "depth_alloc", "depth_attach", "incomplete"}

\* The lowest free struct of each pool (NULL when the pool is used up).
Lowest(S) == IF S = {} THEN NULL ELSE CHOOSE x \in S : \A y \in S : x <= y
FreeFbStruct(s) == Lowest({f \in FbIds : ~s.fbs[f].alloc})
FreeTexStruct(s, depth) == Lowest({t \in TexIds : ~s.texs[t].alloc /\ GPU_texture_depth(t) = depth})
FreeRbStruct(s, depth) == Lowest({r \in RbIds : ~s.rbs[r].alloc /\ GPU_renderbuffer_depth(r) = depth})

\* A call of GPU_offscreen_create under way: the state, the fields of the
\* new struct, whether it has returned, what it returned and where it gave
\* up.
Ctx(s, o, done, ret, fail) == [st |-> s, o |-> o, done |-> done, ret |-> ret, fail |-> fail]

\* "GPU_offscreen_free(ofs); return NULL;"
CreateFail(c, why) ==
  {Ctx(n, [c.o EXCEPT !.alloc = FALSE], TRUE, FALSE, why) : n \in GPU_offscreen_free(c.st, c.o)}

CreateCrash(c, s) == Ctx(s, c.o, TRUE, FALSE, "crash")

\* ofs->fb = GPU_framebuffer_create()
CreateFb(c, dev) ==
  LET r == GPU_framebuffer_create(c.st, FreeFbStruct(c.st), dev # "fb")
  IN UNION {IF x.ret = NULL THEN CreateFail([c EXCEPT !.st = x.st], "fb")
            ELSE {[c EXCEPT !.st = x.st, !.o.fb = x.ret]} : x \in r}

\* The result of an attach inside GPU_offscreen_create.
CreateAttached(c, outs, why) ==
  UNION {IF x.st.proc.crashed THEN {CreateCrash(c, x.st)}
         ELSE IF ~x.ret THEN CreateFail([c EXCEPT !.st = x.st], why)
         ELSE {[c EXCEPT !.st = x.st]} : x \in outs}

\* The color surface: a renderbuffer attached at slot 0, or a texture, after
\* which ofs->depth is what is attached.
CreateColor(c, mode, dev) ==
  IF c.done THEN {c}
  ELSE IF mode.rbcolor
    THEN LET x == GPU_renderbuffer_create(c.st, FreeRbStruct(c.st, FALSE), c.o.samples,
                                          dev # "color_alloc")
             c1 == [c EXCEPT !.st = x.st, !.o.rbcolor = x.ret]
         IN IF x.ret = NULL THEN CreateFail(c1, "color_alloc")
            ELSE CreateAttached(c1,
                   GPU_framebuffer_renderbuffer_attach(c1.st, c1.o.fb, c1.o.rbcolor, 0,
                                                       dev = "color_attach"),
                   "color_attach")
    ELSE LET x == GPU_texture_create(c.st, FreeTexStruct(c.st, FALSE), c.o.samples,
                                     dev # "color_alloc")
             c1 == [c EXCEPT !.st = x.st, !.o.color = x.ret]
         IN IF x.ret = NULL THEN CreateFail(c1, "color_alloc")
            ELSE CreateAttached(c1,
                   GPU_framebuffer_texture_attach(c1.st, c1.o.fb, c1.o.depth, 0),
                   "color_attach")

\* The depth surface: a renderbuffer attached at slot 0, or a texture, after
\* which ofs->color is what is attached.
CreateDepth(c, mode, dev) ==
  IF c.done THEN {c}
  ELSE IF mode.rbdepth
    THEN LET x == GPU_renderbuffer_create(c.st, FreeRbStruct(c.st, TRUE), c.o.samples,
                                          dev # "depth_alloc")
             c1 == [c EXCEPT !.st = x.st, !.o.rbdepth = x.ret]
         IN IF x.ret = NULL THEN CreateFail(c1, "depth_alloc")
            ELSE CreateAttached(c1,
                   GPU_framebuffer_renderbuffer_attach(c1.st, c1.o.fb, c1.o.rbdepth, 0,
                                                       dev = "depth_attach"),
                   "depth_attach")
    ELSE LET x == GPU_texture_create(c.st, FreeTexStruct(c.st, TRUE), c.o.samples,
                                     dev # "depth_alloc")
             c1 == [c EXCEPT !.st = x.st, !.o.depth = x.ret]
         IN IF x.ret = NULL THEN CreateFail(c1, "depth_alloc")
            ELSE CreateAttached(c1,
                   GPU_framebuffer_texture_attach(c1.st, c1.o.fb, c1.o.color, 0),
                   "depth_attach")

\* A create that returns with the new framebuffer bound.
CreateCheck_noRestore(c, dev) ==
  IF c.done THEN {c}
  ELSE LET x == GPU_framebuffer_check_valid(c.st, c.o.fb, dev # "incomplete")
       IN IF ~x.ret THEN CreateFail([c EXCEPT !.st = x.st], "incomplete")
          ELSE {[c EXCEPT !.st = x.st, !.done = TRUE, !.ret = TRUE]}

\* "check validity at the very end!", GPU_framebuffer_restore(), return ofs.
CreateCheck(c, dev) ==
  IF c.done THEN {c}
  ELSE LET x == GPU_framebuffer_check_valid(c.st, c.o.fb, dev # "incomplete")
       IN IF ~x.ret THEN CreateFail([c EXCEPT !.st = x.st], "incomplete")
          ELSE {[c EXCEPT !.st = GPU_framebuffer_restore(x.st), !.done = TRUE, !.ret = TRUE]}

\* GPU_offscreen_create(width, height, samples, data_type, mode, err_out):
\* the calls under way when it has returned (or crashed).
GPU_offscreen_create(s, samples, mode, dev) ==
  LET c0 == Ctx(s, [ZeroOfs EXCEPT !.alloc = TRUE], FALSE, FALSE, "none")
      A == CreateFb(c0, dev)
      B == {IF c.done THEN c ELSE [c EXCEPT !.o.samples = ClampSamples(samples, mode)] : c \in A}
      C == UNION {CreateColor(c, mode, dev) : c \in B}
      D == UNION {CreateDepth(c, mode, dev) : c \in C}
  IN UNION {CreateCheck(c, dev) : c \in D}

(* ------------------------------------------------------------ the history *)
\* What the last call was: its name, arguments and return value; for an
\* attach the target struct as it was before the call; for a free whether
\* GG.currentfb named the handle when it was released; for a call on an
\* offscreen context whether a framebuffer was recorded as bound before it,
\* its flags, and the pushes and pops made before it; for a blur the second
\* framebuffer and texture and the draws made.
NoMode == [rbcolor |-> FALSE, rbdepth |-> FALSE]

Hist(op, fb, surf, slot, ret, pre, bound) ==
  [op |-> op, fb |-> fb, surf |-> surf, slot |-> slot, ret |-> ret,
   pre |-> pre, bound |-> bound,
   samples |-> 0, mode |-> NoMode, dev |-> "none", fail |-> "none",
   color |-> FALSE, depth |-> FALSE, save |-> FALSE, pushes |-> 0, pops |-> 0,
   blurfb |-> NULL, blurtex |-> NULL, draws |-> <<>>]

\* The history of a GPU_offscreen_create: the struct, the sample count and
\* the mode asked for, the step the device failed at and the step the
\* function gave up at.
HistCreate(o, samples, mode, dev, c) ==
  [Hist("ofs_create", c.o.fb, o, 0, c.ret, ZeroFb, GG.currentfb # 0)
     EXCEPT !.samples = samples, !.mode = mode, !.dev = dev, !.fail = c.fail]

NoHist == Hist("none", 0, 0, 0, FALSE, ZeroFb, FALSE)

Commit(s) ==
  /\ fbs' = s.fbs
  /\ texs' = s.texs
  /\ rbs' = s.rbs
  /\ GG' = s.GG
  /\ gl' = s.gl
  /\ proc' = s.proc
  /\ ofs' = s.ofs

\* The caller goes on while the process lives and it has calls left.
Running == ~proc.crashed /\ left > 0

(* ------------------------------------------------- the calls of a caller *)
TexAttach(fb, t, slot) ==
  /\ Running
  /\ fbs[fb].alloc /\ texs[t].alloc
  /\ \E o \in GPU_framebuffer_texture_attach(State, fb, t, slot) :
       /\ Commit(o.st)
       /\ hist' = Hist("tex_attach", fb, t, slot, o.ret, fbs[fb], FALSE)
  /\ left' = left - 1
  /\ UNCHANGED caps

TexDetach(t) ==
  /\ Running
  /\ texs[t].alloc
  /\ \E n \in GPU_framebuffer_texture_detach(State, t) :
       /\ Commit(n)
       /\ hist' = Hist("tex_detach", texs[t].fb, t, texs[t].fb_attachment, TRUE, ZeroFb, FALSE)
  /\ left' = left - 1
  /\ UNCHANGED caps

RbAttach(fb, r, slot) ==
  /\ Running
  /\ fbs[fb].alloc /\ rbs[r].alloc
  /\ \E glError \in (IF SlotRejected(slot) THEN {FALSE} ELSE BOOLEAN) :
     \E o \in GPU_framebuffer_renderbuffer_attach(State, fb, r, slot, glError) :
       /\ Commit(o.st)
       /\ hist' = Hist("rb_attach", fb, r, slot, o.ret, fbs[fb], glError)
  /\ left' = left - 1
  /\ UNCHANGED caps

RbDetach(r) ==
  /\ Running
  /\ rbs[r].alloc
  /\ \E n \in GPU_framebuffer_renderbuffer_detach(State, r) :
       /\ Commit(n)
       /\ hist' = Hist("rb_detach", rbs[r].fb, r, rbs[r].fb_attachment, TRUE, ZeroFb, FALSE)
  /\ left' = left - 1
  /\ UNCHANGED caps

FbFree(fb) ==
  /\ Running
  /\ fbs[fb].alloc
  /\ \E d \in FreeDetachAll(State, fb, 0) :
       LET n == IF d.proc.crashed THEN d ELSE FreeRelease(d, fb)
       IN /\ Commit(n)
          /\ hist' = Hist("fb_free", fb, 0, 0, TRUE, fbs[fb],
                          ~d.proc.crashed /\ d.GG.currentfb = d.fbs[fb].object)
  /\ left' = left - 1
  /\ UNCHANGED caps

FbCreate(fb) ==
  /\ Running
  /\ ~fbs[fb].alloc
  /\ \E genOk \in BOOLEAN :
     \E o \in GPU_framebuffer_create(State, fb, genOk) :
       /\ Commit(o.st)
       /\ hist' = Hist("fb_create", fb, 0, 0, o.ret # NULL, ZeroFb, FALSE)
  /\ left' = left - 1
  /\ UNCHANGED caps

\* GPU_framebuffer_check_valid(fb, err_out) on a live framebuffer.
FbCheckValid(fb) ==
  /\ Running
  /\ fbs[fb].alloc
  /\ \E devOk \in BOOLEAN :
       LET o == GPU_framebuffer_check_valid(State, fb, devOk)
       IN /\ Commit(o.st)
          /\ hist' = Hist("check_valid", fb, 0, 0, o.ret, fbs[fb], devOk)
  /\ left' = left - 1
  /\ UNCHANGED caps

\* GPU_framebuffer_blit between live framebuffers.
FbBlit(fb_read, read_slot, fb_write, write_slot, use_depth) ==
  /\ Running
  /\ fbs[fb_read].alloc /\ fbs[fb_write].alloc
  /\ \E n \in GPU_framebuffer_blit(State, fb_read, read_slot, fb_write, write_slot, use_depth) :
       /\ Commit(n)
       /\ hist' = [Hist("fb_blit", fb_read, fb_write, read_slot, TRUE, fbs[fb_write], use_depth)
                     EXCEPT !.fail = IF BlitTex(State, fb_read, read_slot, use_depth) # NULL
                                        /\ BlitTex(State, fb_write, write_slot, use_depth) # NULL
                                     THEN "none" ELSE "empty"]
  /\ left' = left - 1
  /\ UNCHANGED caps

\* The color textures of the pool.
ColorTexIds == {t \in TexIds : ~GPU_texture_depth(t)}

\* GPU_framebuffer_bind(fb) on a live framebuffer.
FbBind(fb) ==
  /\ Running
  /\ fbs[fb].alloc
  /\ \E n \in GPU_framebuffer_bind(State, fb) :
       /\ Commit(n)
       /\ hist' = Hist("fb_bind", fb, 0, 0, TRUE, fbs[fb], GG.currentfb # 0)
  /\ left' = left - 1
  /\ UNCHANGED caps

FbSlotsBind(fb, slot) ==
  /\ Running
  /\ fbs[fb].alloc
  /\ Commit(GPU_framebuffer_slots_bind(State, fb, slot))
  /\ hist' = Hist("slots_bind", fb, 0, slot, TRUE, fbs[fb], GG.currentfb # 0)
  /\ left' = left - 1
  /\ UNCHANGED caps

FbBindNoSave(fb, slot) ==
  /\ Running
  /\ fbs[fb].alloc
  /\ \E n \in GPU_framebuffer_bind_no_save(State, fb, slot) :
       /\ Commit(n)
       /\ hist' = Hist("bind_no_save", fb, 0, slot, TRUE, fbs[fb], GG.currentfb # 0)
  /\ left' = left - 1
  /\ UNCHANGED caps

FbBindSimple(fb) ==
  /\ Running
  /\ fbs[fb].alloc
  /\ Commit(GPU_framebuffer_bind_simple(State, fb))
  /\ hist' = Hist("bind_simple", fb, 0, 0, TRUE, fbs[fb], GG.currentfb # 0)
  /\ left' = left - 1
  /\ UNCHANGED caps

FbBindAllAttachments(fb) ==
  /\ Running
  /\ fbs[fb].alloc
  /\ Commit(GPU_framebuffer_bind_all_attachments(State, fb))
  /\ hist' = Hist("bind_all_attachments", fb, 0, 0, TRUE, fbs[fb], GG.currentfb # 0)
  /\ left' = left - 1
  /\ UNCHANGED caps

FbRestore ==
  /\ Running
  /\ Commit(GPU_framebuffer_restore(State))
  /\ hist' = Hist("restore", NULL, 0, 0, TRUE, ZeroFb, GG.currentfb # 0)
  /\ left' = left - 1
  /\ UNCHANGED caps

\* GPU_framebuffer_blur on live framebuffers and color textures; hist.ret is
\* whether the shader was there.
FbBlur(fb, tex, blurfb, blurtex, blur_shader) ==
  /\ Running
  /\ fbs[fb].alloc /\ fbs[blurfb].alloc /\ texs[tex].alloc /\ texs[blurtex].alloc
  /\ LET x == GPU_framebuffer_blur(State, fb, tex, blurfb, blurtex, blur_shader)
     IN /\ Commit(x.st)
        /\ hist' = [Hist("blur", fb, tex, 0, blur_shader, fbs[fb], GG.currentfb # 0)
                      EXCEPT !.blurfb = blurfb, !.blurtex = blurtex, !.draws = x.ret]
  /\ left' = left - 1
  /\ UNCHANGED caps

\* GPU_renderbuffer_free(rb) on a live renderbuffer; hist.fb and hist.slot
\* are its back-reference before the call.
RbFree(r) ==
  /\ Running
  /\ rbs[r].alloc
  /\ Commit(GPU_renderbuffer_free(State, r))
  /\ hist' = Hist("rb_free", rbs[r].fb, r, rbs[r].fb_attachment, TRUE, ZeroFb, FALSE)
  /\ left' = left - 1
  /\ UNCHANGED caps

(* -------------------------------------------------- attach, detach, free *)
IsAttach(h) == h.op \in {"tex_attach", "rb_attach"}
IsDetach(h) == h.op \in {"tex_detach", "rb_detach"}
IsTexOp(h) == h.op \in {"tex_attach", "tex_detach"}
SurfIsDepth(h) == IF IsTexOp(h) THEN GPU_texture_depth(h.surf) ELSE GPU_renderbuffer_depth(h.surf)

\* The back-reference of the surface a call was about, in the given tables.
BackFb(tx, rb, h) == IF IsTexOp(h) THEN tx[h.surf].fb ELSE rb[h.surf].fb
BackAtt(tx, rb, h) == IF IsTexOp(h) THEN tx[h.surf].fb_attachment ELSE rb[h.surf].fb_attachment

\* What struct f holds where a surface of that kind attached at att is kept.
Held(f, tex, depth, att) ==
  IF tex THEN (IF depth THEN f.depthtex ELSE f.colortex[att])
         ELSE (IF depth THEN f.depthrb ELSE f.colorrb[att])

\* Struct f with that place emptied.
Emptied(f, tex, depth, att) ==
  IF tex THEN (IF depth THEN [f EXCEPT !.depthtex = NULL] ELSE [f EXCEPT !.colortex[att] = NULL])
         ELSE (IF depth THEN [f EXCEPT !.depthrb = NULL] ELSE [f EXCEPT !.colorrb[att] = NULL])

ModelUnchanged == UNCHANGED <<fbs, texs, rbs, GG, gl, proc, ofs>>

\* C1: in every reachable state the forward and the back references agree:
\* a live framebuffer's color slot i (or depth slot) holds surface S if and
\* only if S's back-reference names that framebuffer (and slot i for color).
C1_RefsAgree ==
  /\ \A f \in FbIds : fbs[f].alloc =>
       /\ \A i \in Slots :
            /\ fbs[f].colortex[i] # NULL =>
                 LET t == fbs[f].colortex[i] IN texs[t].fb = f /\ texs[t].fb_attachment = i
            /\ fbs[f].colorrb[i] # NULL =>
                 LET r == fbs[f].colorrb[i] IN rbs[r].fb = f /\ rbs[r].fb_attachment = i
       /\ fbs[f].depthtex # NULL => texs[fbs[f].depthtex].fb = f
       /\ fbs[f].depthrb # NULL => rbs[fbs[f].depthrb].fb = f
  /\ \A t \in TexIds : texs[t].fb # NULL =>
       Held(fbs[texs[t].fb], TRUE, GPU_texture_depth(t), texs[t].fb_attachment) = t
  /\ \A r \in RbIds : rbs[r].fb # NULL =>
       Held(fbs[rbs[r].fb], FALSE, GPU_renderbuffer_depth(r), rbs[r].fb_attachment) = r

\* C2: a successful attach of a surface that is attached at another place
\* (T1, slot1) re-parents it: afterwards its back-reference is the new
\* (T2, slot2) and T1's slot1 is empty.
C2_ReparentStep ==
  LET h == hist'
      T1 == BackFb(texs, rbs, h)
      s1 == BackAtt(texs, rbs, h)
      d == SurfIsDepth(h)
  IN (/\ IsAttach(h) /\ h.ret
      /\ T1 # NULL /\ fbs[T1].alloc
      /\ Held(fbs[T1], IsTexOp(h), d, s1) = h.surf
      /\ (T1 # h.fb \/ (~d /\ s1 # h.slot)))
     => /\ BackFb(texs', rbs', h) = h.fb
        /\ BackAtt(texs', rbs', h) = h.slot
        /\ Held(fbs'[T1], IsTexOp(h), d, s1) = NULL

C2_Reparent == [][C2_ReparentStep]_vars

\* C3: a successful T.attach(S, slot) followed by detach(S) leaves the place
\* S occupied on T empty, every other slot of T as it was before the attach,
\* and S's back-reference empty (no framebuffer, slot -1).
C3_RoundTripStep ==
  (/\ IsAttach(hist) /\ hist.ret
   /\ IsDetach(hist') /\ IsTexOp(hist') = IsTexOp(hist) /\ hist'.surf = hist.surf)
  => /\ ~proc'.crashed
     /\ fbs'[hist.fb] = Emptied(hist.pre, IsTexOp(hist), SurfIsDepth(hist), hist.slot)
     /\ BackFb(texs', rbs', hist) = NULL
     /\ BackAtt(texs', rbs', hist) = -1

C3_RoundTrip == [][C3_RoundTripStep]_vars

C3_Witness ==
  /\ IsDetach(hist) /\ hist.fb # NULL /\ ~proc.crashed
  /\ BackFb(texs, rbs, hist) = NULL /\ BackAtt(texs, rbs, hist) = -1
  /\ Held(fbs[hist.fb], IsTexOp(hist), SurfIsDepth(hist), hist.slot) = NULL

\* C4: an attach (texture or renderbuffer) with slot >= 4 reports failure
\* and changes nothing: no framebuffer slot, no back-reference, not the
\* record of the bound framebuffer.
C4_InvalidSlotStep ==
  (IsAttach(hist') /\ hist'.slot >= GPU_FB_MAX_SLOTS)
  => (~hist'.ret /\ ModelUnchanged)

C4_InvalidSlot == [][C4_InvalidSlotStep]_vars

C4_Witness ==
  /\ IsAttach(hist) /\ hist.slot >= GPU_FB_MAX_SLOTS /\ ~hist.ret
  /\ GG.currentfb # 0
  /\ \E f \in FbIds : \E i \in Slots : fbs[f].colortex[i] # NULL

\* C5: a detach of a surface whose back-reference is empty changes nothing,
\* and a second detach of the same surface right after a first one changes
\* nothing either.
C5_DetachNoopStep ==
  /\ (IsDetach(hist') /\ BackFb(texs, rbs, hist') = NULL) => ModelUnchanged
  /\ (IsDetach(hist) /\ IsDetach(hist') /\ IsTexOp(hist') = IsTexOp(hist)
        /\ hist'.surf = hist.surf) => ModelUnchanged

C5_DetachNoop == [][C5_DetachNoopStep]_vars

C5_Witness ==
  /\ IsDetach(hist) /\ hist.fb = NULL /\ GG.currentfb # 0
  /\ \E t \in TexIds : texs[t].fb # NULL

\* C6: after T.free() the back-reference of every surface that was held in
\* one of T's color slots or in its depth slot is empty.
C6_FreeClearsBackRefs ==
  (hist.op = "fb_free" /\ ~proc.crashed) =>
     /\ \A i \in Slots :
          /\ hist.pre.colortex[i] # NULL => texs[hist.pre.colortex[i]].fb = NULL
          /\ hist.pre.colorrb[i] # NULL => rbs[hist.pre.colorrb[i]].fb = NULL
     /\ hist.pre.depthtex # NULL => texs[hist.pre.depthtex].fb = NULL
     /\ hist.pre.depthrb # NULL => rbs[hist.pre.depthrb].fb = NULL

\* C7: when T.free() has returned, the record of the bound framebuffer does
\* not name T's released handle; it is none when it named that handle at the
\* moment of the release.
C7_FreeResetsBinding ==
  (hist.op = "fb_free" /\ ~proc.crashed) =>
     /\ GG.currentfb # hist.pre.object
     /\ hist.bound => GG.currentfb = 0

C7_Witness ==
  /\ hist.op = "fb_free" /\ ~proc.crashed /\ hist.bound
  /\ hist.pre.colortex[0] # NULL

(* ----------------------------------------------- completeness and blit *)
\* The status glCheckFramebufferStatus gives a framebuffer once it is bound.
DeviceStatus(f, devOk) == glCheckFramebufferStatus(State, fbs[f].object, devOk)

\* C12: GPU_framebuffer_check_valid(T) returns what the device reports:
\* when the status is not complete it returns failure and GG.currentfb and
\* the device binding are none; when it is complete it returns success and
\* GG.currentfb and the device binding name T.
C12_CheckValidBinding ==
  (hist.op = "check_valid") =>
     LET obj == fbs[hist.fb].object
         complete == DeviceStatus(hist.fb, hist.bound)
     IN /\ hist.ret = complete
        /\ complete => (GG.currentfb = obj /\ gl.draw = obj /\ gl.read = obj)
        /\ ~complete => (GG.currentfb = 0 /\ gl.draw = 0 /\ gl.read = 0)

C12_Witness ==
  /\ hist.op = "check_valid" /\ ~hist.ret /\ ~hist.bound
  /\ fbs[hist.fb].colortex[0] # NULL
  /\ GG.currentfb = 0

\* Nothing is attached to struct f.
NoAttachments(f) ==
  /\ f.depthtex = NULL /\ f.depthrb = NULL
  /\ \A i \in Slots : f.colortex[i] = NULL /\ f.colorrb[i] = NULL

\* C13: on a device that rejects no image, GPU_framebuffer_check_valid
\* reports incomplete on every live framebuffer that has no attachment (a
\* fresh one, or one whose attachments were detached).
C13_ZeroIncomplete ==
  \A f \in FbIds :
     (fbs[f].alloc /\ NoAttachments(fbs[f]) /\ ~proc.crashed)
        => ~GPU_framebuffer_check_valid(State, f, TRUE).ret

\* C14: GPU_framebuffer_blit leaves GG.currentfb as it was, and when it
\* returns the framebuffer bound on the device, for drawing and for
\* reading, is the one GG.currentfb named before the call.
C14_BlitRestoresStep ==
  (hist'.op = "fb_blit" /\ ~proc'.crashed)
  => /\ GG' = GG
     /\ gl'.draw = GG.currentfb
     /\ gl'.read = GG.currentfb

C14_BlitRestores == [][C14_BlitRestoresStep]_vars

C14_Witness ==
  /\ hist.op = "fb_blit" /\ ~proc.crashed /\ hist.fail = "none"
  /\ GG.currentfb # 0 /\ gl.draw = GG.currentfb

(* ------------------------------------------------- references and binding *)
\* C26: no back-reference of a surface names a framebuffer that was freed,
\* and GG.currentfb is none or the handle of a live framebuffer.
C26_NoDangling ==
  ~proc.crashed =>
     /\ \A t \in TexIds : (texs[t].alloc /\ texs[t].fb # NULL) => fbs[texs[t].fb].alloc
     /\ \A r \in RbIds : (rbs[r].alloc /\ rbs[r].fb # NULL) => fbs[rbs[r].fb].alloc
     /\ GG.currentfb # 0 =>
          \E f \in FbIds : fbs[f].alloc /\ fbs[f].object = GG.currentfb

\* C27: a GPU_framebuffer_free(T) that returns leaves GG.currentfb as it
\* was when it named a live framebuffer other than T before the call.
C27_FreeKeepsOtherStep ==
  (/\ hist'.op = "fb_free" /\ ~proc'.crashed
   /\ GG.currentfb # 0 /\ GG.currentfb # fbs[hist'.fb].object
   /\ \E u \in FbIds : u # hist'.fb /\ fbs[u].alloc /\ fbs[u].object = GG.currentfb)
  => GG' = GG

C27_FreeKeepsOther == [][C27_FreeKeepsOtherStep]_vars

\* C28: a GPU_framebuffer_renderbuffer_attach the device answers with
\* GL_INVALID_OPERATION returns failure, leaves every framebuffer struct and
\* the back-reference of the renderbuffer as they were, and leaves
\* GG.currentfb and the device binding at none.
C28_RbAttachRejectedStep ==
  (hist'.op = "rb_attach" /\ hist'.bound)
  => /\ ~hist'.ret
     /\ fbs' = fbs
     /\ rbs' = rbs
     /\ texs' = texs
     /\ GG'.currentfb = 0 /\ gl'.draw = 0 /\ gl'.read = 0
     /\ gl'.att = gl.att

C28_RbAttachRejected == [][C28_RbAttachRejectedStep]_vars

C28_Witness ==
  /\ hist.op = "rb_attach" /\ hist.bound /\ ~hist.ret
  /\ rbs[hist.surf].fb # NULL /\ rbs[hist.surf].fb # hist.fb
  /\ GG.currentfb = 0

(* ---------------------------------------------------- offscreen contexts *)
Modes == [rbcolor : BOOLEAN, rbdepth : BOOLEAN]

\* The structs a create in that mode needs are free in the pools.
PoolsSuffice(mode) ==
  /\ FreeFbStruct(State) # NULL
  /\ IF mode.rbcolor THEN FreeRbStruct(State, FALSE) # NULL ELSE FreeTexStruct(State, FALSE) # NULL
  /\ IF mode.rbdepth THEN FreeRbStruct(State, TRUE) # NULL ELSE FreeTexStruct(State, TRUE) # NULL

OfsCreate(o, samples, mode, dev) ==
  /\ Running
  /\ o = Lowest({x \in OfsIds : ~ofs[x].alloc})
  /\ PoolsSuffice(mode)
  /\ \E c \in GPU_offscreen_create(State, samples, mode, dev) :
       /\ Commit([c.st EXCEPT !.ofs[o] = c.o])
       /\ hist' = HistCreate(o, samples, mode, dev, c)
  /\ left' = left - 1
  /\ UNCHANGED caps

OfsFree(o) ==
  /\ Running
  /\ ofs[o].alloc
  /\ \E n \in GPU_offscreen_free(State, ofs[o]) :
       /\ Commit([n EXCEPT !.ofs[o].alloc = FALSE])
       /\ hist' = Hist("ofs_free", ofs[o].fb, o, 0, TRUE, fbs[ofs[o].fb], FALSE)
  /\ left' = left - 1
  /\ UNCHANGED caps

\* The history of a call on the offscreen context o.
HistOfs(op, o) ==
  [Hist(op, ofs[o].fb, o, 0, TRUE, fbs[ofs[o].fb], GG.currentfb # 0)
     EXCEPT !.pushes = gl.pushes, !.pops = gl.pops]

OfsBind(o, save) ==
  /\ Running
  /\ ofs[o].alloc
  /\ \E n \in GPU_offscreen_bind(State, ofs[o], save) :
       /\ Commit(n)
       /\ hist' = [HistOfs("ofs_bind", o) EXCEPT !.save = save]
  /\ left' = left - 1
  /\ UNCHANGED caps

OfsUnbind(o, restore) ==
  /\ Running
  /\ ofs[o].alloc
  /\ Commit(GPU_offscreen_unbind(State, ofs[o], restore))
  /\ hist' = [HistOfs("ofs_unbind", o) EXCEPT !.save = restore]
  /\ left' = left - 1
  /\ UNCHANGED caps

\* hist.fb is the framebuffer of the source, hist.surf the destination.
OfsBlit(src, dst, color, depth) ==
  /\ Running
  /\ ofs[src].alloc /\ ofs[dst].alloc
  /\ Commit(GPU_offscreen_blit(State, ofs[src], ofs[dst], color, depth))
  /\ hist' = [HistOfs("ofs_blit", dst) EXCEPT !.fb = ofs[src].fb, !.color = color, !.depth = depth]
  /\ left' = left - 1
  /\ UNCHANGED caps

\* hist.slot is the number of temporary objects the call generated.
OfsReadPixels(o, dev) ==
  /\ Running
  /\ ofs[o].alloc
  /\ \E x \in GPU_offscreen_read_pixels(State, ofs[o], dev) :
       /\ Commit(x.st)
       /\ hist' = [HistOfs("ofs_read_pixels", o) EXCEPT !.slot = x.ret, !.dev = dev]
  /\ left' = left - 1
  /\ UNCHANGED caps

\* The structs in use, pool by pool.
LiveStructs(f, t, r) ==
  <<{x \in FbIds : f[x].alloc}, {x \in TexIds : t[x].alloc}, {x \in RbIds : r[x].alloc}>>

\* C8: a GPU_offscreen_create that returns NULL, whatever step it failed at,
\* leaves no object and has released every device handle it allocated
\* exactly once: the live handles and structs are those before the call.
C8_CreateAtomicStep ==
  (hist'.op = "ofs_create" /\ ~hist'.ret /\ ~proc'.crashed)
  => /\ ~ofs'[hist'.surf].alloc
     /\ gl'.fbos = gl.fbos
     /\ gl'.textures = gl.textures
     /\ gl'.renderbuffers = gl.renderbuffers
     /\ gl'.doubleFree = gl.doubleFree
     /\ LiveStructs(fbs', texs', rbs') = LiveStructs(fbs, texs, rbs)
     /\ hist'.fail = hist'.dev

C8_CreateAtomic == [][C8_CreateAtomicStep]_vars

C8_Witness ==
  /\ hist.op = "ofs_create" /\ ~hist.ret /\ ~proc.crashed
  /\ hist.fail = "incomplete" /\ hist.mode.rbcolor /\ hist.mode.rbdepth
  /\ gl.fbos = {} /\ gl.renderbuffers = {}

\* C9: after a successful GPU_offscreen_create, in every mode, the color
\* surface is held in color slot 0 of the context's framebuffer, the depth
\* surface is held in its depth slot, and both back-references name that
\* framebuffer.
C9_CreateAttachesAll ==
  (hist.op = "ofs_create" /\ hist.ret /\ ~proc.crashed) =>
     LET o == ofs[hist.surf]
         f == fbs[o.fb]
     IN /\ o.alloc /\ o.fb # NULL
        /\ hist.mode.rbcolor =>
             (o.rbcolor # NULL /\ f.colorrb[0] = o.rbcolor /\ rbs[o.rbcolor].fb = o.fb)
        /\ ~hist.mode.rbcolor =>
             (o.color # NULL /\ f.colortex[0] = o.color /\ texs[o.color].fb = o.fb)
        /\ hist.mode.rbdepth =>
             (o.rbdepth # NULL /\ f.depthrb = o.rbdepth /\ rbs[o.rbdepth].fb = o.fb)
        /\ ~hist.mode.rbdepth =>
             (o.depth # NULL /\ f.depthtex = o.depth /\ texs[o.depth].fb = o.fb)

\* C10 as claimed: a created context has sample count 0 whenever samples > 0
\* was asked for and the device lacks multisample renderbuffers, or blit,
\* or multisample textures; otherwise it has the count asked for.
C10_ClampAnyMissing ==
  (hist.op = "ofs_create" /\ hist.ret /\ ~proc.crashed) =>
     ofs[hist.surf].samples =
       IF hist.samples > 0 /\ (~caps.multisample \/ ~caps.blit \/ ~caps.texture_multisample)
         THEN 0 ELSE hist.samples

\* C10 as amended: a missing multisample-texture capability clamps the count
\* only when the color or the depth surface is a texture; and a create
\* fails only at a step the device failed at, never for a missing
\* capability.
C10_ClampPerMode ==
  (hist.op = "ofs_create" /\ ~proc.crashed) =>
     /\ hist.ret =>
          ofs[hist.surf].samples =
            IF hist.samples > 0
               /\ (\/ ~caps.multisample
                   \/ ~caps.blit
                   \/ (~caps.texture_multisample
                         /\ ~(hist.mode.rbcolor /\ hist.mode.rbdepth)))
              THEN 0 ELSE hist.samples
     /\ ~hist.ret => hist.dev # "none"
     /\ hist.dev = "none" => hist.ret

C10_Witness ==
  /\ hist.op = "ofs_create" /\ hist.ret /\ ~proc.crashed
  /\ hist.mode.rbcolor /\ hist.mode.rbdepth
  /\ hist.samples = MaxSamples /\ ofs[hist.surf].samples = MaxSamples
  /\ caps.multisample /\ caps.blit /\ ~caps.texture_multisample

(* ------------------------------------------ the use of offscreen contexts *)
\* The framebuffer object of the offscreen context o.
OfsObject(o) == fbs[ofs[o].fb].object

\* C11: when GPU_offscreen_create has succeeded, GG.currentfb is none and
\* the default framebuffer is the one bound on the device, whatever was
\* bound before the call.
C11_CreateLeavesNone ==
  (hist.op = "ofs_create" /\ hist.ret /\ ~proc.crashed) =>
     (GG.currentfb = 0 /\ gl.draw = 0 /\ gl.read = 0)

C11_Witness ==
  /\ hist.op = "ofs_create" /\ hist.ret /\ ~proc.crashed /\ hist.bound
  /\ hist.mode.rbcolor /\ hist.mode.rbdepth
  /\ fbs[hist.fb].colorrb[0] # NULL /\ GG.currentfb = 0

\* C15: after GPU_offscreen_blit(src, dst, color, depth) with color or depth
\* set, GG.currentfb names the framebuffer of dst and that framebuffer is
\* the one bound on the device for drawing and for reading.
C15_OfsBlitBindsDst ==
  (hist.op = "ofs_blit" /\ (hist.color \/ hist.depth) /\ ~proc.crashed) =>
     LET obj == OfsObject(hist.surf)
     IN GG.currentfb = obj /\ gl.draw = obj /\ gl.read = obj

C15_Witness ==
  /\ hist.op = "ofs_blit" /\ hist.color /\ ~hist.depth /\ ~proc.crashed
  /\ hist.fb # ofs[hist.surf].fb
  /\ GG.currentfb = OfsObject(hist.surf) /\ GG.currentfb # 0

\* C16: GPU_offscreen_blit with color and depth both false changes neither
\* GG.currentfb nor the framebuffers bound on the device.
C16_BlitNoFlagsStep ==
  (hist'.op = "ofs_blit" /\ ~hist'.color /\ ~hist'.depth)
  => (GG' = GG /\ gl'.draw = gl.draw /\ gl'.read = gl.read)

C16_BlitNoFlags == [][C16_BlitNoFlagsStep]_vars

\* C17: GPU_offscreen_read_pixels leaves the live textures and framebuffer
\* objects of the device as they were and deletes none twice; with a
\* single-sample color texture it generates no temporary object.
C17_ReadPixelsNoLeakStep ==
  LET color == ofs[hist'.surf].color
  IN (hist'.op = "ofs_read_pixels" /\ ~proc'.crashed)
     => /\ gl'.textures = gl.textures
        /\ gl'.fbos = gl.fbos
        /\ gl'.renderbuffers = gl.renderbuffers
        /\ gl'.doubleFree = gl.doubleFree
        /\ (color # NULL /\ texs[color].samples = 0) => hist'.slot = 0

C17_ReadPixelsNoLeak == [][C17_ReadPixelsNoLeakStep]_vars

C17_Witness ==
  /\ hist.op = "ofs_read_pixels" /\ ~proc.crashed
  /\ hist.dev = "incomplete" /\ hist.slot = 2
  /\ ofs[hist.surf].color # NULL /\ texs[ofs[hist.surf].color].samples = MaxSamples
  /\ tex_blit \notin gl.textures /\ fbo_blit \notin gl.fbos

\* C18: for a GPU_offscreen_bind(ofs, true) followed by
\* GPU_offscreen_unbind(ofs, true), the pops made by the two calls are as
\* many as the pushes made by them.
C18_ScopePairedStep ==
  (/\ hist.op = "ofs_bind" /\ hist.save
   /\ hist'.op = "ofs_unbind" /\ hist'.save /\ hist'.surf = hist.surf
   /\ ~proc'.crashed)
  => gl'.pops - hist.pops = gl'.pushes - hist.pushes

C18_ScopePaired == [][C18_ScopePairedStep]_vars

\* C19: GPU_offscreen_bind completes, leaves GG.currentfb naming the
\* framebuffer of the context, and has pushed a scope if and only if the
\* color surface of the context is a texture.
C19_BindByMode ==
  (hist.op = "ofs_bind") =>
     /\ ~proc.crashed
     /\ GG.currentfb = OfsObject(hist.surf)
     /\ ofs[hist.surf].color # NULL => gl.pushes = hist.pushes + 1
     /\ ofs[hist.surf].color = NULL => gl.pushes = hist.pushes

\* C20: GPU_offscreen_free has released the framebuffer, the textures and
\* the renderbuffers of the context, each once, and no surface was
\* released while its back-reference still named a framebuffer.
C20_FreeOrder ==
  (hist.op = "ofs_free" /\ ~proc.crashed) =>
     LET o == ofs[hist.surf]
     IN /\ ~proc.heldAtRelease
        /\ ~gl.doubleFree
        /\ ~fbs[o.fb].alloc /\ hist.pre.object \notin gl.fbos
        /\ o.color # NULL => (~texs[o.color].alloc /\ texs[o.color].bindcode \notin gl.textures)
        /\ o.depth # NULL => (~texs[o.depth].alloc /\ texs[o.depth].bindcode \notin gl.textures)
        /\ o.rbcolor # NULL =>
             (~rbs[o.rbcolor].alloc /\ rbs[o.rbcolor].bindcode \notin gl.renderbuffers)
        /\ o.rbdepth # NULL =>
             (~rbs[o.rbdepth].alloc /\ rbs[o.rbdepth].bindcode \notin gl.renderbuffers)

C20_Witness ==
  /\ hist.op = "ofs_free" /\ ~proc.crashed
  /\ ofs[hist.surf].rbcolor # NULL /\ ofs[hist.surf].rbdepth # NULL
  /\ hist.pre.colorrb[0] = ofs[hist.surf].rbcolor
  /\ hist.pre.depthrb = ofs[hist.surf].rbdepth

\* C21: after GPU_renderbuffer_free of a renderbuffer that was attached, no
\* slot of a live framebuffer, color or depth, refers to it.
C21_FreedNotHeld ==
  (hist.op = "rb_free" /\ hist.fb # NULL) =>
     \A f \in FbIds : fbs[f].alloc =>
        /\ fbs[f].depthrb # hist.surf
        /\ \A i \in Slots : fbs[f].colorrb[i] # hist.surf

(* ---------------------------------------------------------- bind and blur *)
\* The elements of the set S of integers in ascending order.
Ascending(S) ==
  [k \in 1..Cardinality(S) |->
     CHOOSE x \in S : Cardinality({y \in S : y < x}) = k - 1]

\* C22: after GPU_framebuffer_bind(T) with a color slot occupied, the draw
\* buffers of T are its occupied slots in ascending order, its read buffer
\* is the lowest occupied slot and the viewport has the width and the
\* height of the texture in that slot; with no color slot occupied and a
\* depth texture, draw and read buffer are none and the viewport has the
\* size of the depth texture.
C22_BindLowestSlot ==
  (hist.op = "fb_bind" /\ ~proc.crashed) =>
     LET f == fbs[hist.fb]
         occ == {i \in Slots : f.colortex[i] # NULL}
         low == CHOOSE i \in occ : \A j \in occ : i <= j
         bufs == gl.bufs[f.object]
     IN /\ occ # {} =>
             /\ bufs.draw = [k \in 1..Cardinality(occ) |-> GL_COLOR_ATTACHMENT0 + Ascending(occ)[k]]
             /\ bufs.read = GL_COLOR_ATTACHMENT0 + low
             /\ gl.viewport = <<texs[f.colortex[low]].w, texs[f.colortex[low]].h>>
        /\ (occ = {} /\ f.depthtex # NULL) =>
             /\ bufs.draw = <<>>
             /\ bufs.read = GL_NONE
             /\ gl.viewport = <<texs[f.depthtex].w, texs[f.depthtex].h>>

\* C23: a bind of the single slot `slot` (GPU_framebuffer_slots_bind,
\* GPU_framebuffer_bind_no_save) changes nothing when the slot of the
\* framebuffer is empty; when it is occupied the draw buffers and the read
\* buffer of the framebuffer are that slot alone and GG.currentfb names the
\* framebuffer.
C23_SingleSlotStep ==
  LET h == hist'
      f == fbs[h.fb]
      point == GL_COLOR_ATTACHMENT0 + h.slot
  IN (h.op \in {"slots_bind", "bind_no_save"}) =>
       /\ f.colortex[h.slot] = NULL => ModelUnchanged
       /\ (f.colortex[h.slot] # NULL /\ ~proc'.crashed) =>
            /\ gl'.bufs[f.object].draw = <<point>>
            /\ gl'.bufs[f.object].read = point
            /\ GG'.currentfb = f.object

C23_SingleSlot == [][C23_SingleSlotStep]_vars

\* The size of texture t.
SizeOf(t) == <<texs[t].w, texs[t].h>>

\* C24: GPU_framebuffer_blur makes two draws: the first with the blur
\* framebuffer bound and recorded, the viewport of the size of the blur
\* texture and the source texture sampled; the second with the original
\* framebuffer bound and recorded, the viewport of the size of the source
\* texture and the blur texture sampled; on return GG.currentfb names the
\* original framebuffer.  Without the blur shader it changes nothing.
C24_BlurTwoPassesStep ==
  LET h == hist'
      obj == fbs[h.fb].object
      blurobj == fbs[h.blurfb].object
  IN (h.op = "blur") =>
       /\ h.ret =>
            /\ h.draws = << [bound |-> blurobj, recorded |-> blurobj,
                             viewport |-> SizeOf(h.blurtex), sampled |-> h.surf],
                            [bound |-> obj, recorded |-> obj,
                             viewport |-> SizeOf(h.surf), sampled |-> h.blurtex] >>
            /\ GG'.currentfb = obj /\ gl'.draw = obj
       /\ ~h.ret => (h.draws = <<>> /\ ModelUnchanged)

C24_BlurTwoPasses == [][C24_BlurTwoPassesStep]_vars

C24_Witness ==
  /\ hist.op = "blur" /\ hist.ret /\ Len(hist.draws) = 2
  /\ hist.fb # hist.blurfb /\ hist.surf # hist.blurtex
  /\ hist.bound /\ GG.currentfb = fbs[hist.fb].object
  /\ hist.pre.colortex[0] = hist.surf

\* C29: an attach with a slot outside 0..3, negative ones included, reports
\* failure and changes nothing, and no back-reference of an attached
\* surface holds a slot outside 0..3.
C29_SlotRangeStep ==
  /\ (IsAttach(hist') /\ hist'.slot \notin Slots /\ ~proc'.crashed)
       => (~hist'.ret /\ ModelUnchanged)
  /\ ~proc'.crashed =>
       /\ \A t \in TexIds : texs'[t].fb # NULL => texs'[t].fb_attachment \in Slots
       /\ \A r \in RbIds : rbs'[r].fb # NULL => rbs'[r].fb_attachment \in Slots

C29_SlotRange == [][C29_SlotRangeStep]_vars

\* C25: GG.currentfb is the framebuffer bound on the device for drawing.
C25_RecordIsBound == ~proc.crashed => GG.currentfb = gl.draw

(* ------------------------------------------------------ the specification *)
\* The framebuffers, textures and renderbuffers of the pools exist and
\* nothing is attached or bound.
Init ==
  /\ fbs = [f \in FbIds |-> [ZeroFb EXCEPT !.alloc = TRUE, !.object = f]]
  /\ texs = [t \in TexIds |-> PoolTex(t)]
  /\ rbs = [r \in RbIds |-> [ZeroRb EXCEPT !.alloc = TRUE, !.bindcode = r]]
  /\ GG = [currentfb |-> 0]
  /\ gl = PoolGl
  /\ proc = ZeroProc
  /\ ofs = [o \in OfsIds |-> ZeroOfs]
  /\ caps \in {[multisample |-> TRUE, texture_multisample |-> TRUE, blit |-> TRUE]}
  /\ hist = NoHist
  /\ left = MaxOps

Next ==
  \/ \E fb \in FbIds, t \in TexIds, slot \in SlotArgs : TexAttach(fb, t, slot)
  \/ \E t \in TexIds : TexDetach(t)
  \/ \E fb \in FbIds, r \in RbIds, slot \in SlotArgs : RbAttach(fb, r, slot)
  \/ \E r \in RbIds : RbDetach(r)
  \/ \E fb \in FbIds : FbFree(fb)
  \/ \E fb \in FbIds : FbCreate(fb)
  \/ \E fb \in FbIds : FbCheckValid(fb)
  \/ \E fb_read \in FbIds, fb_write \in FbIds, slot \in BlitSlots, use_depth \in BOOLEAN :
       FbBlit(fb_read, slot, fb_write, slot, use_depth)

Spec == Init /\ [][Next]_vars

\* A caller that attaches with any int as the slot.
NextSlots ==
  \/ \E fb \in FbIds, t \in TexIds, slot \in IntSlotArgs : TexAttach(fb, t, slot)
  \/ \E fb \in FbIds, r \in RbIds, slot \in IntSlotArgs : RbAttach(fb, r, slot)

SpecSlots == Init /\ [][NextSlots]_vars

\* A caller that attaches renderbuffers and frees them.
NextRb ==
  \/ \E fb \in FbIds, r \in RbIds, slot \in SlotArgs : RbAttach(fb, r, slot)
  \/ \E r \in RbIds : RbFree(r)

SpecRb == Init /\ [][NextRb]_vars

\* A caller that attaches textures, binds framebuffers and blurs.
NextBind ==
  \/ \E fb \in FbIds, t \in TexIds, slot \in SlotArgs : TexAttach(fb, t, slot)
  \/ \E fb \in FbIds : FbBind(fb)
  \/ \E fb \in FbIds, slot \in BlitSlots : FbSlotsBind(fb, slot)
  \/ \E fb \in FbIds, slot \in BlitSlots : FbBindNoSave(fb, slot)
  \/ \E fb \in FbIds : FbBindSimple(fb)
  \/ \E fb \in FbIds : FbBindAllAttachments(fb)
  \/ FbRestore
  \/ \E fb \in FbIds, blurfb \in FbIds, tex \in ColorTexIds, blurtex \in ColorTexIds,
        blur_shader \in BOOLEAN :
       tex # blurtex /\ FbBlur(fb, tex, blurfb, blurtex, blur_shader)

SpecBind == Init /\ [][NextBind]_vars

\* The same caller with one call more.
InitBindLong ==
  /\ fbs = [f \in FbIds |-> [ZeroFb EXCEPT !.alloc = TRUE, !.object = f]]
  /\ texs = [t \in TexIds |-> PoolTex(t)]
  /\ rbs = [r \in RbIds |-> [ZeroRb EXCEPT !.alloc = TRUE, !.bindcode = r]]
  /\ GG = [currentfb |-> 0]
  /\ gl = PoolGl
  /\ proc = ZeroProc
  /\ ofs = [o \in OfsIds |-> ZeroOfs]
  /\ caps \in {[multisample |-> TRUE, texture_multisample |-> TRUE, blit |-> TRUE]}
  /\ hist = NoHist
  /\ left = MaxOps + 1

SpecBindLong == InitBindLong /\ [][NextBind]_vars

\* The same caller with two calls more.
InitLong ==
  /\ fbs = [f \in FbIds |-> [ZeroFb EXCEPT !.alloc = TRUE, !.object = f]]
  /\ texs = [t \in TexIds |-> PoolTex(t)]
  /\ rbs = [r \in RbIds |-> [ZeroRb EXCEPT !.alloc = TRUE, !.bindcode = r]]
  /\ GG = [currentfb |-> 0]
  /\ gl = PoolGl
  /\ proc = ZeroProc
  /\ ofs = [o \in OfsIds |-> ZeroOfs]
  /\ caps \in {[multisample |-> TRUE, texture_multisample |-> TRUE, blit |-> TRUE]}
  /\ hist = NoHist
  /\ left = MaxOps + 2

SpecLong == InitLong /\ [][Next]_vars

\* Offscreen contexts on a device of any capabilities: nothing exists yet.
InitOfs ==
  /\ fbs = [f \in FbIds |-> ZeroFb]
  /\ texs = [t \in TexIds |-> ZeroTex]
  /\ rbs = [r \in RbIds |-> ZeroRb]
  /\ GG = [currentfb |-> 0]
  /\ gl = ZeroGl
  /\ proc = ZeroProc
  /\ ofs = [o \in OfsIds |-> ZeroOfs]
  /\ caps \in [multisample : BOOLEAN, texture_multisample : BOOLEAN, blit : BOOLEAN]
  /\ hist = NoHist
  /\ left = MaxOfsOps

NextOfs ==
  \/ \E o \in OfsIds, samples \in {0, MaxSamples}, mode \in Modes, dev \in FailSteps \cup {"none"} :
       OfsCreate(o, samples, mode, dev)
  \/ \E o \in OfsIds : OfsFree(o)

SpecOfs == InitOfs /\ [][NextOfs]_vars

\* Nothing exists.
ZeroState ==
  [fbs |-> [f \in FbIds |-> ZeroFb], texs |-> [t \in TexIds |-> ZeroTex],
   rbs |-> [r \in RbIds |-> ZeroRb], GG |-> [currentfb |-> 0], gl |-> ZeroGl,
   proc |-> ZeroProc, ofs |-> [o \in OfsIds |-> ZeroOfs]]

\* The use of offscreen contexts on a device with every capability: one
\* context exists, as GPU_offscreen_create returned it.
InitUse ==
  /\ caps = [multisample |-> TRUE, texture_multisample |-> TRUE, blit |-> TRUE]
  /\ \E samples \in {0, MaxSamples}, mode \in Modes :
     \E c \in GPU_offscreen_create(ZeroState, samples, mode, "none") :
       /\ c.ret /\ ~c.st.proc.crashed
       /\ fbs = c.st.fbs
       /\ texs = c.st.texs
       /\ rbs = c.st.rbs
       /\ GG = c.st.GG
       /\ gl = c.st.gl
       /\ proc = c.st.proc
       /\ ofs = [c.st.ofs EXCEPT ![Lowest(OfsIds)] = c.o]
  /\ hist = NoHist
  /\ left = MaxOfsOps

NextUse ==
  \/ \E o \in OfsIds, samples \in {0, MaxSamples}, mode \in Modes, dev \in {"none", "incomplete"} :
       OfsCreate(o, samples, mode, dev)
  \/ \E o \in OfsIds : OfsFree(o)
  \/ \E o \in OfsIds, save \in BOOLEAN : OfsBind(o, save)
  \/ \E o \in OfsIds, restore \in BOOLEAN : OfsUnbind(o, restore)
  \/ \E src \in OfsIds, dst \in OfsIds, color \in BOOLEAN, depth \in BOOLEAN :
       OfsBlit(src, dst, color, depth)
  \/ \E o \in OfsIds, dev \in ReadFailSteps \cup {"none"} : OfsReadPixels(o, dev)

SpecUse == InitUse /\ [][NextUse]_vars

====
